---- MODULE Spec2Model ----
(***************************************************************************)
(* Block colour support hook (src/unnamed/part_000): the colour/gradient   *)
(* change handlers of withBlockControls with their localAttributes shadow, *)
(* the save-time class filter addSaveProps, and the contrast sampling      *)
(* effect of ColorPanel. With it, the two tools of the repository: the     *)
(* first-time contributor labeller of project-management-automation and    *)
(* the valid-text-domain lint rule as its RuleTester table states it.      *)
(***************************************************************************)
EXTENDS Integers, Sequences, FiniteSets, TLC

VARIABLES
    blockSupport,            \* the block type's __experimentalColor support
    colors,                  \* editor settings: colour palette
    gradients,               \* editor settings: gradient catalog
    hostAttributes,          \* the host store's canonical block attributes
    attributes,              \* props.attributes of the last render
    localAttributes,         \* localAttributes.current
    hostDirty,               \* the store changed and the render is pending
    batch,                   \* per channel, the last value changed since the last render
    batchLen,                \* number of change calls since the last render
    lastCall,                \* the handler call just made
    lastCommit,              \* the newAttributes it passed to props.setAttributes
    saved,                   \* the last addSaveProps application
    lastRender,              \* whether the last step was a render, and what it found
    dom,                     \* the rendered DOM around the block node
    detectedColor,           \* ColorPanel state
    detectedBackgroundColor, \* ColorPanel state
    lastSample               \* the last run of the ColorPanel effect

colorVars == <<blockSupport, colors, gradients, hostAttributes, attributes,
               localAttributes, hostDirty, batch, batchLen, lastCall,
               lastCommit, saved, lastRender>>
contrastVars == <<dom, detectedColor, detectedBackgroundColor, lastSample>>

\* One invocation of addFirstTimeContributorLabel( payload, octokit ).
VARIABLES
    payload,                 \* the push event
    pc,                      \* the await the invocation stands at, or "done"
    totalCount,              \* data.total_count, once the search has settled
    dotOrgUsername,          \* response.body.slug, once the lookup has settled
    calls,                   \* the requests made, in order, and how each settled
    logs,                    \* the debug messages, in order
    outcome                  \* "running", "returned" or "threw"

botVars == <<payload, pc, totalCount, dotOrgUsername, calls, logs, outcome>>

\* One run of the valid-text-domain rule, with its fixer, over one call.
VARIABLES
    testCase,                \* the case of the RuleTester table under run
    code,                    \* the translation call, as the fixer left it
    report,                  \* the report of the last lint pass
    passes                   \* the lint passes, fixes and assertions so far

lintVars == <<testCase, code, report, passes>>

vars == <<colorVars, contrastVars, botVars, lintVars>>

\* JavaScript's undefined, for every string-valued slot.
Undef == "undefined"

-----------------------------------------------------------------------------
(* Bounds *)

\* Change calls modelled within one batch (between two host renders).
MaxBatch == 2
\* Element nodes on the DOM chain from the block node upwards.
MaxDepth == 3
\* Commits a push carries, and commits a search may count.
MaxPushed == 2
MaxCommits == 2

-----------------------------------------------------------------------------
(* Attribute snapshots *)

Channels == {"text", "background", "gradient"}

\* The style attribute. def = FALSE is undefined; colorDef = FALSE is a style
\* without a color key; a slot holding Undef is an absent (or undefined) key.
\* other stands for every style key besides color.
NoStyle ==
    [def |-> FALSE, colorDef |-> FALSE, text |-> Undef, background |-> Undef,
     gradient |-> Undef, other |-> Undef]

Styles ==
    {NoStyle} \cup
    { [def |-> TRUE, colorDef |-> FALSE, text |-> Undef, background |-> Undef,
       gradient |-> Undef, other |-> o] : o \in {Undef, "typography"} } \cup
    { [def |-> TRUE, colorDef |-> TRUE, text |-> t, background |-> b,
       gradient |-> g, other |-> Undef] :
         t \in {Undef, "#222"}, b \in {Undef, "#222"}, g \in {Undef, "lg-custom"} } \cup
    { [def |-> TRUE, colorDef |-> TRUE, text |-> t, background |-> Undef,
       gradient |-> Undef, other |-> "typography"] : t \in {Undef, "#222"} }

StyleRaw(style, name) ==
    CASE name = "text" -> style.text
      [] name = "background" -> style.background
      [] name = "gradient" -> style.gradient

AttributeName(name) ==
    CASE name = "text" -> "textColor"
      [] name = "background" -> "backgroundColor"
      [] name = "gradient" -> "gradient"

Snapshots ==
    [textColor : {Undef, "red"}, backgroundColor : {Undef, "red"},
     gradient : {Undef, "sunset"}, style : Styles]

ChannelSlug(attrs, name) ==
    CASE name = "text" -> attrs.textColor
      [] name = "background" -> attrs.backgroundColor
      [] name = "gradient" -> attrs.gradient

ChannelRaw(attrs, name) == StyleRaw(attrs.style, name)

-----------------------------------------------------------------------------
(* Editor settings and block support *)

\* getBlockSupport( blockType, COLOR_SUPPORT_KEY ): absent, true, or an object
\* with the gradients flag.
BlockSupports == {"none", "true", "gradients"}

hasColorSupport(blockType) == blockType # "none"

hasGradientSupport(blockType) == blockType = "gradients"

\* select( 'core/block-editor' ).getSettings(): the palette and the gradient
\* catalog. Catalogs may be empty; the last setting lists one value under two
\* slugs.
EditorSettings ==
    { [colors |-> <<>>, gradients |-> <<>>],
      [colors |-> <<[slug |-> "red", color |-> "#f00"]>>,
       gradients |-> <<[slug |-> "sunset", gradient |-> "lg-sunset"]>>],
      [colors |-> <<[slug |-> "red", color |-> "#f00"],
                    [slug |-> "crimson", color |-> "#f00"]>>,
       gradients |-> <<[slug |-> "sunset", gradient |-> "lg-sunset"],
                       [slug |-> "dusk", gradient |-> "lg-sunset"]>>] }

\* The values a picker hands to a change handler: a palette value, a custom
\* value, or undefined (clear).
ColorValues == {"#f00", "#222", Undef}
GradientValues == {"lg-sunset", "lg-custom", Undef}

FirstIndex(S) == CHOOSE i \in S : \A j \in S : i <= j

\* getColorObjectByColorValue( colors, value )?.slug
getColorObjectByColorValue(catalog, value) ==
    LET hits == {i \in DOMAIN catalog : catalog[i].color = value}
    IN  IF hits = {} THEN Undef ELSE catalog[FirstIndex(hits)].slug

\* getGradientSlugByValue( gradients, value )
getGradientSlugByValue(catalog, value) ==
    LET hits == {i \in DOMAIN catalog : catalog[i].gradient = value}
    IN  IF hits = {} THEN Undef ELSE catalog[FirstIndex(hits)].slug

\* getGradientValueBySlug( gradients, slug )
getGradientValueBySlug(catalog, slug) ==
    LET hits == {i \in DOMAIN catalog : catalog[i].slug = slug}
    IN  IF hits = {} THEN Undef ELSE catalog[FirstIndex(hits)].gradient

\* getColorObjectByAttributeValues( colors, definedColor, customColor ).color:
\* the palette value of a named colour, else the custom colour.
getColorObjectByAttributeValues(catalog, definedColor, customColor) ==
    LET hits == {i \in DOMAIN catalog : catalog[i].slug = definedColor}
    IN  IF definedColor = Undef THEN customColor
        ELSE IF hits = {} THEN Undef ELSE catalog[FirstIndex(hits)].color

\* cleanEmptyObject( style ): drops undefined slots and empty objects, and
\* yields undefined for an object left empty.
cleanEmptyObject(style) ==
    LET colorDef == style.def /\ style.colorDef /\
                    (style.text # Undef \/ style.background # Undef \/
                     style.gradient # Undef)
        def == style.def /\ (colorDef \/ style.other # Undef)
    IN  IF ~def THEN NoStyle
        ELSE [def |-> TRUE, colorDef |-> colorDef,
              text |-> IF colorDef THEN style.text ELSE Undef,
              background |-> IF colorDef THEN style.background ELSE Undef,
              gradient |-> IF colorDef THEN style.gradient ELSE Undef,
              other |-> style.other]

-----------------------------------------------------------------------------
(* withBlockControls: the change handlers *)

\* Mutant: the handler computes from the props of the last render.
ShadowReadProps == attributes

\* The snapshot a handler computes from: localAttributes.current.
ShadowRead == localAttributes

\* Mutant: the color object is built anew, without the spread of the old one.
SpreadStyleAnew(style, name, value) ==
    [def |-> TRUE, colorDef |-> TRUE,
     text |-> IF name = "text" THEN value ELSE Undef,
     background |-> IF name = "background" THEN value ELSE Undef,
     gradient |-> IF name = "gradient" THEN value ELSE Undef,
     other |-> style.other]

\* { ...style, color: { ...style?.color, [ name ]: value } }
SpreadStyle(style, name, value) ==
    [def |-> TRUE, colorDef |-> TRUE,
     text |-> IF name = "text" THEN value ELSE style.text,
     background |-> IF name = "background" THEN value ELSE style.background,
     gradient |-> IF name = "gradient" THEN value ELSE style.gradient,
     other |-> style.other]

\* Mutant: a style left empty is committed as an empty object.
CommitStyleEmptyObject(newStyle) ==
    IF cleanEmptyObject(newStyle) = NoStyle
    THEN [NoStyle EXCEPT !.def = TRUE]
    ELSE cleanEmptyObject(newStyle)

\* Mutant: the style is committed as built.
CommitStyleRaw(newStyle) == newStyle

\* The style a handler commits: cleanEmptyObject( newStyle ).
CommitStyle(newStyle) == cleanEmptyObject(newStyle)

\* Mutant: the palette is not consulted, every value is stored raw.
onChangeColorNoSlug(name, value) ==
    [attr |-> AttributeName(name), value |-> Undef,
     style |-> CommitStyle(SpreadStyle(ShadowRead.style, name, value))]

\* Mutant: the raw value is written even when a palette entry matches.
onChangeColorKeepsRaw(name, value) ==
    [attr |-> AttributeName(name),
     value |-> getColorObjectByColorValue(colors, value),
     style |-> CommitStyle(SpreadStyle(ShadowRead.style, name, value))]

\* newAttributes of onChangeColor( name )( value )
onChangeColorAttributes(name, value) ==
    LET slug == getColorObjectByColorValue(colors, value)
        newStyle == SpreadStyle(ShadowRead.style, name,
                                IF slug # Undef THEN Undef ELSE value)
    IN  [attr |-> AttributeName(name), value |-> slug,
         style |-> CommitStyle(newStyle)]

\* Mutant: a custom gradient leaves the named gradient in place.
onChangeGradientKeepsSlug(value) ==
    LET slug == getGradientSlugByValue(gradients, value)
    IN  IF slug # Undef
        THEN [attr |-> "gradient", value |-> slug,
              style |-> CommitStyle(SpreadStyle(ShadowRead.style, "gradient", Undef))]
        ELSE [attr |-> "gradient", value |-> ShadowRead.gradient,
              style |-> CommitStyle(SpreadStyle(ShadowRead.style, "gradient", value))]

\* newAttributes of onChangeGradient( value )
onChangeGradientAttributes(value) ==
    LET slug == getGradientSlugByValue(gradients, value)
    IN  IF slug # Undef
        THEN [attr |-> "gradient", value |-> slug,
              style |-> CommitStyle(SpreadStyle(ShadowRead.style, "gradient", Undef))]
        ELSE [attr |-> "gradient", value |-> Undef,
              style |-> CommitStyle(SpreadStyle(ShadowRead.style, "gradient", value))]

\* { ...current, ...newAttributes }
MergeAttributes(current, newAttributes) ==
    [current EXCEPT !.style = newAttributes.style,
                    ![newAttributes.attr] = newAttributes.value]

\* props.setAttributes( newAttributes ): the host merges the update into the
\* block's attributes.
setAttributes(newAttributes) == MergeAttributes(hostAttributes, newAttributes)

\* localAttributes.current = { ...localAttributes.current, ...newAttributes }
ShadowWrite(newAttributes) == MergeAttributes(localAttributes, newAttributes)

NoCall == [channel |-> "none", value |-> Undef]
NoCommit == [attr |-> "none", value |-> Undef, style |-> NoStyle]
NoBatch == [c \in Channels |-> "unchanged"]
NoSave == [done |-> FALSE, className |-> {}, result |-> {}]

Commit(name, value, newAttributes) ==
    /\ hostAttributes' = setAttributes(newAttributes)
    /\ localAttributes' = ShadowWrite(newAttributes)
    /\ lastCall' = [channel |-> name, value |-> value]
    /\ lastCommit' = newAttributes
    /\ batch' = [batch EXCEPT ![name] = value]
    /\ batchLen' = batchLen + 1
    /\ saved' = NoSave
    /\ lastRender' = "none"
    /\ UNCHANGED <<blockSupport, colors, gradients, attributes, hostDirty>>
    /\ UNCHANGED <<contrastVars, botVars, lintVars>>

\* The handlers exist on a rendered control of a block type with colour
\* support; the host serialises its update cycle, so a handler runs on props
\* the host has delivered (no store change is pending a render).
onChangeColor(name, value) ==
    /\ hasColorSupport(blockSupport)
    /\ ~hostDirty
    /\ batchLen < MaxBatch
    /\ Commit(name, value, onChangeColorAttributes(name, value))

\* Mutant: an unresolved slug falls back to the custom gradient.
gradientValueFallsBack ==
    IF hasGradientSupport(blockSupport)
    THEN IF getGradientValueBySlug(gradients, attributes.gradient) # Undef
         THEN getGradientValueBySlug(gradients, attributes.gradient)
         ELSE ChannelRaw(attributes, "gradient")
    ELSE Undef

\* let gradientValue; if ( hasGradient && gradient ) ... else if ( hasGradient ) ...
\* computed from the props of the render.
gradientValue ==
    IF hasGradientSupport(blockSupport) /\ attributes.gradient # Undef
    THEN getGradientValueBySlug(gradients, attributes.gradient)
    ELSE IF hasGradientSupport(blockSupport)
         THEN ChannelRaw(attributes, "gradient")
         ELSE Undef

\* Mutant: the gradient handler is handed to the panel of every block type.
onGradientChangeAlways == TRUE

\* onGradientChange: hasGradient ? onChangeGradient : undefined
onGradientChange == hasGradientSupport(blockSupport)

onChangeGradient(value) ==
    /\ hasColorSupport(blockSupport)
    /\ onGradientChange
    /\ ~hostDirty
    /\ batchLen < MaxBatch
    /\ Commit("gradient", value, onChangeGradientAttributes(value))

\* Mutant: the effect is missing, the ref keeps what it holds.
ShadowResetKeeps(hostProps) == localAttributes

\* Mutant: the effect writes the props of the render before.
ShadowResetStale(hostProps) == attributes

\* The effect after every render: localAttributes.current = attributes.
ShadowReset(hostProps) == hostProps

\* The host renders the control with its current attributes.
Render ==
    /\ attributes' = hostAttributes
    /\ localAttributes' = ShadowReset(hostAttributes)
    /\ hostDirty' = FALSE
    /\ batch' = NoBatch
    /\ batchLen' = 0
    /\ lastCall' = NoCall
    /\ lastCommit' = NoCommit
    /\ saved' = NoSave
    /\ lastRender' = IF localAttributes = hostAttributes THEN "synced" ELSE "diverged"
    /\ UNCHANGED <<blockSupport, colors, gradients, hostAttributes>>
    /\ UNCHANGED <<contrastVars, botVars, lintVars>>

\* Another writer (undo, a transform, another control) replaces the block's
\* attributes in the store; the render that delivers them follows.
ExternalAttributes ==
    { [textColor |-> "red", backgroundColor |-> Undef, gradient |-> "sunset",
       style |-> [NoStyle EXCEPT !.def = TRUE, !.other = "typography"]],
      [textColor |-> Undef, backgroundColor |-> "red", gradient |-> Undef,
       style |-> [NoStyle EXCEPT !.def = TRUE, !.colorDef = TRUE,
                                 !.text = "#222", !.gradient = "lg-custom"]] }

HostUpdate(newAttributes) ==
    /\ newAttributes # hostAttributes
    /\ hostAttributes' = newAttributes
    /\ hostDirty' = TRUE
    /\ saved' = NoSave
    /\ lastRender' = "none"
    /\ UNCHANGED <<blockSupport, colors, gradients, attributes, localAttributes,
                   batch, batchLen, lastCall, lastCommit>>
    /\ UNCHANGED <<contrastVars, botVars, lintVars>>

-----------------------------------------------------------------------------
(* addSaveProps: the save-time class filter *)

\* A class name: its kind, and the slug a slug-derived class is built from.
Class(kind, slug) == [kind |-> kind, slug |-> slug]
NoClass == Class("undefined", "-")

\* getColorClassName( contextName, colorSlug )
getColorClassName(contextName, colorSlug) ==
    IF colorSlug = Undef THEN NoClass ELSE Class(contextName, colorSlug)

\* __experimentalGetGradientClass( gradientSlug )
getGradientClass(gradientSlug) ==
    IF gradientSlug = Undef THEN NoClass ELSE Class("gradient-background", gradientSlug)

\* The class names the save element arrives with.
ClassNameInputs == { {}, {Class("wp-block", "-")} }

\* Mutant: the background class is applied whenever there is one.
BackgroundClassAlways(blockType, attrs) ==
    getColorClassName("background-color", attrs.backgroundColor) # NoClass

\* Mutant: a named gradient suppresses the background class too.
BackgroundClassNoGradient(blockType, attrs) ==
    /\ (~hasGradientSupport(blockType) \/
        (attrs.gradient = Undef /\ attrs.style.gradient = Undef))
    /\ getColorClassName("background-color", attrs.backgroundColor) # NoClass

\* Don't apply the background class if there's a custom gradient.
BackgroundClassApplies(blockType, attrs) ==
    /\ (~hasGradientSupport(blockType) \/ attrs.style.gradient = Undef)
    /\ getColorClassName("background-color", attrs.backgroundColor) # NoClass

\* The className of addSaveProps( props, blockType, attributes ); the empty
\* set is the undefined className.
addSaveProps(className, blockType, attrs) ==
    IF ~hasColorSupport(blockType) THEN className
    ELSE LET hasGradient == hasGradientSupport(blockType)
             backgroundClass == getColorClassName("background-color", attrs.backgroundColor)
             gradientClass == getGradientClass(attrs.gradient)
             textClass == getColorClassName("color", attrs.textColor)
         IN  (className \cup {textClass, gradientClass}
                \cup (IF BackgroundClassApplies(blockType, attrs)
                      THEN {backgroundClass} ELSE {})
                \cup (IF attrs.textColor # Undef \/ attrs.style.text # Undef
                      THEN {Class("has-text-color", "-")} ELSE {})
                \cup (IF \/ attrs.backgroundColor # Undef
                         \/ attrs.style.background # Undef
                         \/ (hasGradient /\ (attrs.gradient # Undef \/
                                             attrs.style.gradient # Undef))
                      THEN {Class("has-background", "-")} ELSE {}))
             \ {NoClass}

\* The host serialises the block: the blocks.getSaveContent.extraProps filter
\* runs on the block's attributes.
Save(className) ==
    /\ saved' = [done |-> TRUE, className |-> className,
                 result |-> addSaveProps(className, blockSupport, hostAttributes)]
    /\ UNCHANGED <<blockSupport, colors, gradients, hostAttributes, attributes,
                   localAttributes, hostDirty, batch, batchLen, lastCall, lastCommit,
                   lastRender>>
    /\ UNCHANGED <<contrastVars, botVars, lintVars>>

-----------------------------------------------------------------------------
(* ColorPanel: the contrast sampling effect *)

\* Computed colours as getComputedStyle serialises them. The loop's sentinel
\* is the first; the second is fully transparent too (alpha 0).
Transparent == "rgba(0, 0, 0, 0)"
BackgroundValues ==
    {Transparent, "rgba(255, 255, 255, 0)", "rgb(255, 255, 255)", "rgb(0, 0, 0)"}
TextValues == {"rgb(0, 0, 0)", "rgb(255, 0, 0)"}

\* The DOM around the block: whether getBlockDOMNode finds the node, its
\* computed text colour, the computed backgrounds of the node (chain[1]) and
\* of its element ancestors upwards, and what the topmost element's
\* parentNode is (the document, or null for a detached tree).
NoDom == [present |-> FALSE, color |-> Undef, chain |-> <<>>, top |-> "null"]

Chains == UNION { [1..n -> BackgroundValues] : n \in 1..MaxDepth }

Doms ==
    {NoDom} \cup
    { [present |-> TRUE, color |-> c, chain |-> ch, top |-> t] :
        c \in TextValues, ch \in Chains, t \in {"document", "null"} }

\* backgroundColorNode.parentNode && parentNode.nodeType === Node.ELEMENT_NODE
ParentIsElement(d, i) ==
    /\ (i < Len(d.chain) \/ d.top # "null")
    /\ i < Len(d.chain)

\* Mutant: the walk climbs to the topmost element whatever it reads.
WalkToTop(d, i) == Len(d.chain)

\* The while loop: the index of the node the walk stops at.
RECURSIVE Walk(_, _)
Walk(d, i) ==
    IF d.chain[i] = Transparent /\ ParentIsElement(d, i)
    THEN Walk(d, i + 1)
    ELSE i

NoSample == [ran |-> FALSE, found |-> FALSE, stop |-> 0]

\* What the effect does when getBlockDOMNode returns nothing.
AbsentNodeSample ==
    /\ UNCHANGED <<detectedColor, detectedBackgroundColor>>

\* One run of the useEffect callback.
SampleEffect ==
    /\ IF ~dom.present
       THEN /\ AbsentNodeSample
            /\ lastSample' = [ran |-> TRUE, found |-> FALSE, stop |-> 0]
       ELSE LET stop == Walk(dom, 1)
            IN  /\ detectedColor' = dom.color
                /\ detectedBackgroundColor' = dom.chain[stop]
                /\ lastSample' = [ran |-> TRUE, found |-> TRUE, stop |-> stop]
    /\ UNCHANGED dom
    /\ UNCHANGED <<colorVars, botVars, lintVars>>

\* The page changes around the control: the block node is mounted, removed,
\* moved or restyled.
DomChange(d) ==
    /\ d # dom
    /\ dom' = d
    /\ lastSample' = NoSample
    /\ UNCHANGED <<detectedColor, detectedBackgroundColor>>
    /\ UNCHANGED <<colorVars, botVars, lintVars>>

-----------------------------------------------------------------------------
(* addFirstTimeContributorLabel: the labeller *)

Master == "refs/heads/master"
Refs == {Master, "refs/heads/trunk"}

\* A pushed commit: its author, and the pull request its message names.
Commits == [author : {"alice", "bob"}, pullRequest : {Undef, "7"}]

Payloads ==
    [ref : Refs,
     commits : UNION {[1..n -> Commits] : n \in 1..MaxPushed}]

NoPayload == [ref |-> Undef, commits |-> <<>>]

\* getAssociatedPullRequest( commit )
getAssociatedPullRequest(commit) == commit.pullRequest

\* const commit = payload.commits[ 0 ];
\* const pullRequest = getAssociatedPullRequest( commit );
pullRequestOf(p) == getAssociatedPullRequest(p.commits[1])

\* const author = commit.author.username;
authorOf(p) == p.commits[1].author

\* Mutant: any count passes.
IsFirstTimeAlways(count) == TRUE

\* if ( totalCount !== 0 ) { ... return; }
IsFirstTime(count) == count = 0

\* if ( dotOrgUsername )
Truthy(value) == value \notin {Undef, ""}

NoRequest == [api |-> "none", arg |-> Undef, settled |-> "none"]
Request(api, arg) == [api |-> api, arg |-> arg, settled |-> "pending"]

\* The function ended: it returned after a debug message, or an awaited
\* request rejected outside a try.
Ended(how, log) ==
    [pc |-> "done", outcome |-> how, log |-> log, request |-> NoRequest]

\* The function logged, issued a request and awaits its settlement.
Awaiting(at, log, request) ==
    [pc |-> at, outcome |-> "running", log |-> log, request |-> request]

SearchResponses ==
    {[ok |-> FALSE, total_count |-> 0]} \cup
    {[ok |-> TRUE, total_count |-> n] : n \in 0..MaxCommits}

\* The lookup rejects, or fulfils without a body, or with a body whose slug
\* is absent, empty or a user name.
LookupResponses ==
    {[ok |-> FALSE, body |-> FALSE, slug |-> Undef],
     [ok |-> TRUE, body |-> FALSE, slug |-> Undef]} \cup
    {[ok |-> TRUE, body |-> TRUE, slug |-> u] : u \in {Undef, "", "wpuser"}}

\* Lines 48-76, up to the first await.
start(p) ==
    IF p.ref # Master THEN Ended("returned", "notMaster")
    ELSE IF pullRequestOf(p) = Undef THEN Ended("returned", "noPullRequest")
    ELSE Awaiting("search", "searching", Request("search.commits", authorOf(p)))

\* Lines 72-94, from the settlement of the search to the next await.
afterSearch(p, response) ==
    IF ~response.ok THEN Ended("threw", "none")
    ELSE IF ~IsFirstTime(response.total_count) THEN Ended("returned", "commitsFound")
    ELSE Awaiting("addLabels", "addingLabel",
                  Request("issues.addLabels", pullRequestOf(p)))

\* Lines 89-107.
afterAddLabels(p, ok) ==
    IF ~ok THEN Ended("threw", "none")
    ELSE Awaiting("lookup", "checkingUsername", Request("got", authorOf(p)))

\* Lines 116-128, with dotOrgUsername assigned or left undefined.
afterUsername(p, username) ==
    IF Truthy(username) THEN Ended("returned", "alreadyKnown")
    ELSE Awaiting("createComment", "none",
                  Request("issues.createComment", pullRequestOf(p)))

\* Mutant: the catch block logs and does not return.
catchLookupFallsThrough(p) ==
    [afterUsername(p, Undef) EXCEPT !.log = "lookupError"]

\* catch ( error ) { debug( ... ); return; }
catchLookup(p) == Ended("returned", "lookupError")

\* Lines 100-128: the try around the lookup and what follows it.
afterLookup(p, response) ==
    IF ~response.ok \/ ~response.body THEN catchLookup(p)
    ELSE afterUsername(p, response.slug)

\* Line 123-129.
afterCreateComment(ok) ==
    IF ok THEN Ended("returned", "none") ELSE Ended("threw", "none")

\* The awaited request settles and the function runs on to its next await or
\* to its end.
Advance(step, settled) ==
    /\ pc' = step.pc
    /\ outcome' = step.outcome
    /\ logs' = IF step.log = "none" THEN logs ELSE Append(logs, step.log)
    /\ calls' =
          LET told == IF calls = <<>> THEN calls
                      ELSE [calls EXCEPT ![Len(calls)].settled = settled]
          IN  IF step.request = NoRequest THEN told
              ELSE Append(told, step.request)
    /\ UNCHANGED payload
    /\ UNCHANGED <<colorVars, contrastVars, lintVars>>

Settled(ok) == IF ok THEN "fulfilled" ELSE "rejected"

Start ==
    /\ pc = "start"
    /\ Advance(start(payload), "none")
    /\ UNCHANGED <<totalCount, dotOrgUsername>>

SearchSettles(response) ==
    /\ pc = "search"
    /\ totalCount' = IF response.ok THEN response.total_count ELSE totalCount
    /\ Advance(afterSearch(payload, response), Settled(response.ok))
    /\ UNCHANGED dotOrgUsername

AddLabelsSettles(ok) ==
    /\ pc = "addLabels"
    /\ Advance(afterAddLabels(payload, ok), Settled(ok))
    /\ UNCHANGED <<totalCount, dotOrgUsername>>

LookupSettles(response) ==
    /\ pc = "lookup"
    /\ dotOrgUsername' = IF response.ok /\ response.body THEN response.slug
                         ELSE dotOrgUsername
    /\ Advance(afterLookup(payload, response), Settled(response.ok))
    /\ UNCHANGED totalCount

CreateCommentSettles(ok) ==
    /\ pc = "createComment"
    /\ Advance(afterCreateComment(ok), Settled(ok))
    /\ UNCHANGED <<totalCount, dotOrgUsername>>

\* No invocation is under way.
BotIdle ==
    /\ payload = NoPayload
    /\ pc = "idle"
    /\ totalCount = 0
    /\ dotOrgUsername = Undef
    /\ calls = <<>>
    /\ logs = <<>>
    /\ outcome = "idle"

-----------------------------------------------------------------------------
(* valid-text-domain: the rule under its RuleTester table *)

TranslationFunctions == {"__", "_x", "_n", "_nx"}

Lit(value) == [type |-> "Literal", value |-> value]
Id(name) == [type |-> "Identifier", value |-> name]

\* The arguments a call has before its text domain.
LeadingArguments(fn) ==
    CASE fn = "__" -> <<Lit("Hello World")>>
      [] fn = "_x" -> <<Lit("Hello World"), Lit("context")>>
      [] fn = "_n" -> <<Lit("Singular"), Lit("Plural"), Id("number")>>
      [] fn = "_nx" -> <<Lit("Singular"), Lit("Plural"), Id("number"), Lit("context")>>

Call(fn, domain) == [callee |-> fn, arguments |-> LeadingArguments(fn) \o domain]

NoCode == [callee |-> "none", arguments |-> <<>>]

AllowDefault == [allowDefault |-> TRUE, allowedTextDomains |-> <<>>]
AllowFoo == [allowDefault |-> FALSE, allowedTextDomains |-> <<"foo">>]
NoOptions == [allowDefault |-> FALSE, allowedTextDomains |-> <<>>]

TestCaseOf(c, o, id, out) ==
    [code |-> c, options |-> o, messageId |-> id, output |-> out]

\* valid: [ ... ]
ValidCases ==
    {TestCaseOf(Call(fn, <<>>), AllowDefault, "valid", NoCode) :
        fn \in TranslationFunctions} \cup
    {TestCaseOf(Call(fn, <<Lit("foo")>>), AllowFoo, "valid", NoCode) :
        fn \in TranslationFunctions}

\* invalid: [ ... ]
InvalidCases ==
    {TestCaseOf(Call(fn, <<>>), AllowFoo, "missing", Call(fn, <<Lit("foo")>>)) :
        fn \in TranslationFunctions} \cup
    {TestCaseOf(Call(fn, <<Lit("bar")>>), AllowFoo, "invalidValue",
                Call(fn, <<Lit("foo")>>)) : fn \in TranslationFunctions} \cup
    {TestCaseOf(Call(fn, <<Id("value")>>), NoOptions, "invalidType", NoCode) :
        fn \in TranslationFunctions} \cup
    {TestCaseOf(Call(fn, <<Lit("default")>>), AllowDefault, "unnecessaryDefault",
                Call(fn, <<>>)) : fn \in TranslationFunctions}

NoCase == TestCaseOf(NoCode, NoOptions, "none", NoCode)

\* The place of the text domain among the arguments of a translation call.
TextDomainPosition(fn) == Len(LeadingArguments(fn)) + 1

NoFix == [kind |-> "none", text |-> Undef]
NoReport == [messageId |-> "none", fix |-> NoFix]
Accept == [messageId |-> "valid", fix |-> NoFix]

\* A fix is offered when exactly one text domain is allowed.
FixTo(kind, allowed) ==
    IF Len(allowed) = 1 THEN [kind |-> kind, text |-> allowed[1]] ELSE NoFix

\* The rule on one translation call.
rule(c, o) ==
    LET pos == TextDomainPosition(c.callee)
        allowed == o.allowedTextDomains
    IN  IF Len(c.arguments) < pos
        THEN IF o.allowDefault THEN Accept
             ELSE [messageId |-> "missing", fix |-> FixTo("insert", allowed)]
        ELSE IF c.arguments[pos].type # "Literal"
        THEN [messageId |-> "invalidType", fix |-> NoFix]
        ELSE IF o.allowDefault /\ c.arguments[pos].value = "default"
        THEN [messageId |-> "unnecessaryDefault",
              fix |-> [kind |-> "remove", text |-> Undef]]
        ELSE IF \E i \in DOMAIN allowed : allowed[i] = c.arguments[pos].value
        THEN Accept
        ELSE [messageId |-> "invalidValue", fix |-> FixTo("replace", allowed)]

\* Mutant: the fixer adds the allowed domain and removes nothing.
applyFixAppends(c, fix) ==
    IF fix.kind \in {"insert", "replace"}
    THEN [c EXCEPT !.arguments = Append(@, Lit(fix.text))]
    ELSE c

\* The fixer: the domain is appended, replaced or removed.
applyFix(c, fix) ==
    LET pos == TextDomainPosition(c.callee)
    IN  CASE fix.kind = "insert" ->
               [c EXCEPT !.arguments = Append(@, Lit(fix.text))]
          [] fix.kind = "replace" ->
               [c EXCEPT !.arguments[pos] = Lit(fix.text)]
          [] fix.kind = "remove" ->
               [c EXCEPT !.arguments = SubSeq(@, 1, pos - 1)]

\* A lint pass over the call: the first, or the one after a fix.
Lint ==
    /\ testCase # NoCase
    /\ Len(passes) \in {0, 4}
    /\ report' = rule(code, testCase.options)
    /\ passes' = Append(passes, report'.messageId)
    /\ UNCHANGED <<testCase, code>>
    /\ UNCHANGED <<colorVars, contrastVars, botVars>>

\* errors: [ { messageId } ], or none for a valid case.
ExpectErrors ==
    /\ Len(passes) = 1
    /\ passes' = Append(passes, IF report.messageId = testCase.messageId
                                THEN "errorsAsExpected" ELSE "errorsUnexpected")
    /\ UNCHANGED <<testCase, code, report>>
    /\ UNCHANGED <<colorVars, contrastVars, botVars>>

ApplyFix ==
    /\ Len(passes) = 2
    /\ report.fix # NoFix
    /\ code' = applyFix(code, report.fix)
    /\ passes' = Append(passes, "fixed")
    /\ UNCHANGED <<testCase, report>>
    /\ UNCHANGED <<colorVars, contrastVars, botVars>>

\* output: `...`
ExpectOutput ==
    /\ Len(passes) = 3
    /\ passes' = Append(passes, IF code = testCase.output
                                THEN "outputAsExpected" ELSE "outputUnexpected")
    /\ UNCHANGED <<testCase, code, report>>
    /\ UNCHANGED <<colorVars, contrastVars, botVars>>

\* No case is under run.
LintIdle ==
    /\ testCase = NoCase
    /\ code = NoCode
    /\ report = NoReport
    /\ passes = <<>>

-----------------------------------------------------------------------------
(* Specifications *)

MountedSnapshot ==
    [textColor |-> Undef, backgroundColor |-> Undef, gradient |-> Undef,
     style |-> NoStyle]

ColorInit ==
    /\ blockSupport \in BlockSupports
    /\ \E settings \in EditorSettings :
         /\ colors = settings.colors
         /\ gradients = settings.gradients
    /\ hostAttributes \in Snapshots
    /\ attributes = hostAttributes
    /\ localAttributes = hostAttributes
    /\ hostDirty = FALSE
    /\ batch = NoBatch
    /\ batchLen = 0
    /\ lastCall = NoCall
    /\ lastCommit = NoCommit
    /\ saved = NoSave
    /\ lastRender = "none"

ContrastMount ==
    /\ detectedColor = Undef
    /\ detectedBackgroundColor = Undef
    /\ lastSample = NoSample

\* The attribute machine; the DOM is not sampled.
Init ==
    /\ ColorInit
    /\ dom = NoDom
    /\ ContrastMount
    /\ BotIdle
    /\ LintIdle

Next ==
    \/ \E name \in {"text", "background"} : \E value \in ColorValues :
          onChangeColor(name, value)
    \/ \E value \in GradientValues : onChangeGradient(value)
    \/ Render
    \/ \E a \in ExternalAttributes : HostUpdate(a)
    \/ \E className \in ClassNameInputs : Save(className)

Spec == Init /\ [][Next]_vars

\* One control on a block type with gradient support and a palette: the host
\* re-renders the control whenever its attributes changed, so a render that
\* would change the control's state is not postponed forever.
FairInit ==
    /\ Init
    /\ blockSupport = "gradients"
    /\ Len(colors) = 1
    /\ hostAttributes.style.other = Undef
    /\ hostAttributes.style.def = hostAttributes.style.colorDef

FairSpec == FairInit /\ [][Next]_vars /\ WF_vars(Render)

\* The contrast sampler of one mounted control; the attributes stay put.
ContrastInit ==
    /\ blockSupport = "gradients"
    /\ colors = <<>>
    /\ gradients = <<>>
    /\ hostAttributes = MountedSnapshot
    /\ attributes = MountedSnapshot
    /\ localAttributes = MountedSnapshot
    /\ hostDirty = FALSE
    /\ batch = NoBatch
    /\ batchLen = 0
    /\ lastCall = NoCall
    /\ lastCommit = NoCommit
    /\ saved = NoSave
    /\ lastRender = "none"
    /\ dom \in Doms
    /\ ContrastMount
    /\ BotIdle
    /\ LintIdle

ContrastNext ==
    \/ SampleEffect
    \/ \E d \in Doms : DomChange(d)

ContrastSpec == ContrastInit /\ [][ContrastNext]_vars

\* No block is mounted.
EditorIdle ==
    /\ blockSupport = "none"
    /\ colors = <<>>
    /\ gradients = <<>>
    /\ hostAttributes = MountedSnapshot
    /\ attributes = MountedSnapshot
    /\ localAttributes = MountedSnapshot
    /\ hostDirty = FALSE
    /\ batch = NoBatch
    /\ batchLen = 0
    /\ lastCall = NoCall
    /\ lastCommit = NoCommit
    /\ saved = NoSave
    /\ lastRender = "none"
    /\ dom = NoDom
    /\ ContrastMount

\* One invocation of the labeller on one push event.
BotInit ==
    /\ EditorIdle
    /\ LintIdle
    /\ payload \in Payloads
    /\ pc = "start"
    /\ totalCount = 0
    /\ dotOrgUsername = Undef
    /\ calls = <<>>
    /\ logs = <<>>
    /\ outcome = "running"

BotNext ==
    \/ Start
    \/ \E response \in SearchResponses : SearchSettles(response)
    \/ \E ok \in BOOLEAN : AddLabelsSettles(ok)
    \/ \E response \in LookupResponses : LookupSettles(response)
    \/ \E ok \in BOOLEAN : CreateCommentSettles(ok)

BotSpec == BotInit /\ [][BotNext]_vars

\* ruleTester.run over one case of the table, and a lint pass after its fix.
LintInit ==
    /\ EditorIdle
    /\ BotIdle
    /\ testCase \in ValidCases \cup InvalidCases
    /\ code = testCase.code
    /\ report = NoReport
    /\ passes = <<>>

LintNext ==
    \/ Lint
    \/ ExpectErrors
    \/ ApplyFix
    \/ ExpectOutput

LintSpec == LintInit /\ [][LintNext]_vars

-----------------------------------------------------------------------------
(* Properties of the change handlers *)

\* What a change of channel name to value stores: the catalog's slug, or the
\* raw value when the catalog has none.
ResultSlug(name, value) ==
    IF name = "gradient" THEN getGradientSlugByValue(gradients, value)
    ELSE getColorObjectByColorValue(colors, value)

ResultRaw(name, value) == IF ResultSlug(name, value) # Undef THEN Undef ELSE value

Reflects(attrs, name, value) ==
    /\ ChannelSlug(attrs, name) = ResultSlug(name, value)
    /\ ChannelRaw(attrs, name) = ResultRaw(name, value)

\* C1: within a batch of change calls with no render in between, the shadow
\* and the host's attributes hold, for every channel changed in the batch,
\* the result of the latest change of that channel.
C1_NoLostUpdates ==
    (~hostDirty) =>
        \A name \in Channels :
            batch[name] # "unchanged" =>
                /\ Reflects(localAttributes, name, batch[name])
                /\ Reflects(hostAttributes, name, batch[name])

\* A batch of two calls on two channels, both leaving a raw value that the
\* props of the last render do not hold.
C1_Witness ==
    /\ batchLen = 2
    /\ batch["text"] = "#222"
    /\ batch["gradient"] = "lg-custom"
    /\ attributes.style.text = Undef
    /\ attributes.style.gradient = Undef
    /\ hostAttributes.style.text = "#222"
    /\ hostAttributes.style.gradient = "lg-custom"

AtMostOne(attrs, name) ==
    ~(ChannelSlug(attrs, name) # Undef /\ ChannelRaw(attrs, name) # Undef)

\* A step that is a change call.
IsChangeStep == batchLen' = batchLen + 1

\* C2 as stated: after a change call, every channel of the resulting snapshot
\* has at most one of slug and raw value.
C2_EveryChannel ==
    lastCall.channel # "none" =>
        \A name \in Channels : AtMostOne(localAttributes, name)

\* C2: after a change call, the changed channel has at most one of slug and
\* raw value, and every other channel that had at most one before the call
\* still has.
C2_Priority ==
    [][IsChangeStep =>
          /\ AtMostOne(localAttributes', lastCall'.channel)
          /\ (~hostDirty => AtMostOne(hostAttributes', lastCall'.channel))
          /\ \A name \in Channels :
                AtMostOne(localAttributes, name) => AtMostOne(localAttributes', name)]_vars

\* A palette value was chosen for a channel that held a raw value.
C2_Witness ==
    /\ lastCall = [channel |-> "background", value |-> "#f00"]
    /\ attributes.style.background = "#222"
    /\ batchLen = 1
    /\ localAttributes.backgroundColor = "red"
    /\ localAttributes.style.background = Undef

CatalogValues(name) ==
    IF name = "gradient" THEN {gradients[i].gradient : i \in DOMAIN gradients}
    ELSE {colors[i].color : i \in DOMAIN colors}

CatalogSlugs(name, value) ==
    IF name = "gradient"
    THEN {gradients[i].slug : i \in {j \in DOMAIN gradients : gradients[j].gradient = value}}
    ELSE {colors[i].slug : i \in {j \in DOMAIN colors : colors[j].color = value}}

\* C3: the committed update of a change of a channel to a value carries the
\* slug of a catalog entry with that value and no raw value when the catalog
\* has such an entry, and otherwise an undefined slug and the value as the
\* raw value.
C3_TwoBranch ==
    lastCall.channel # "none" =>
        /\ lastCommit.attr = AttributeName(lastCall.channel)
        /\ IF lastCall.value \in CatalogValues(lastCall.channel)
           THEN /\ lastCommit.value \in CatalogSlugs(lastCall.channel, lastCall.value)
                /\ StyleRaw(lastCommit.style, lastCall.channel) = Undef
           ELSE /\ lastCommit.value = Undef
                /\ StyleRaw(lastCommit.style, lastCall.channel) = lastCall.value

\* A custom gradient was chosen over a named one.
C3_Witness ==
    /\ lastCall = [channel |-> "gradient", value |-> "lg-custom"]
    /\ attributes.gradient = "sunset"
    /\ batchLen = 1
    /\ lastCommit.value = Undef
    /\ lastCommit.style.gradient = "lg-custom"

Minimal(style) ==
    /\ style.def => (style.colorDef \/ style.other # Undef)
    /\ style.colorDef =>
          (style.text # Undef \/ style.background # Undef \/ style.gradient # Undef)
    /\ ~style.def => style = NoStyle

\* C4: after a change call the committed style and the shadow's style are
\* never an empty object and never hold an empty color object: with no raw
\* value and no other key left, the style is undefined.
C4_Minimality ==
    lastCall.channel # "none" =>
        /\ Minimal(lastCommit.style)
        /\ Minimal(localAttributes.style)

\* Clearing the only raw value of a style with no other key.
C4_Witness ==
    /\ lastCall = [channel |-> "text", value |-> Undef]
    /\ batchLen = 1
    /\ attributes.style.text = "#222"
    /\ attributes.style.other = Undef
    /\ lastCommit.style = NoStyle
    /\ localAttributes.style = NoStyle

-----------------------------------------------------------------------------
(* Properties of the shadow *)

\* C5: after a render, whatever the shadow held before, the shadow equals the
\* attributes the host passed to that render.
C5_ShadowReset ==
    lastRender # "none" =>
        /\ attributes = hostAttributes
        /\ localAttributes = attributes

\* A render that found the shadow different from the attributes it delivers.
C5_Witness ==
    /\ lastRender = "diverged"
    /\ localAttributes = hostAttributes

\* The shadow differs from the rendered attributes by the batch's commits only.
WithinBatch ==
    /\ batchLen = 0 => localAttributes = attributes
    /\ \A name \in Channels :
          batch[name] = "unchanged" =>
              /\ ChannelSlug(localAttributes, name) = ChannelSlug(attributes, name)
              /\ ChannelRaw(localAttributes, name) = ChannelRaw(attributes, name)
    /\ ~hostDirty => localAttributes = hostAttributes

\* A step that changes the host's attributes.
IsHostStep == hostAttributes' # hostAttributes

\* C6: the shadow differs from the rendered attributes by no more than the
\* commits since the last render and from the host only while a render is
\* pending; a shadow that differs from the host comes to equal it, and once
\* the host's attributes stop changing it stays equal.
C6_EventualConsistency ==
    /\ []WithinBatch
    /\ (localAttributes # hostAttributes) ~> (localAttributes = hostAttributes)
    /\ (<>[][~IsHostStep]_vars) => <>[](localAttributes = hostAttributes)

\* The store moved on under a shadow that holds a batch of commits.
C6_Witness ==
    /\ hostDirty
    /\ batchLen > 0
    /\ localAttributes # hostAttributes
    /\ localAttributes # attributes

-----------------------------------------------------------------------------
(* Properties of addSaveProps *)

BackgroundClassOf(attrs) == Class("background-color", attrs.backgroundColor)

\* C7: with gradient support, a named background colour and a custom
\* gradient, the saved className has has-background and not the slug-derived
\* background-color class.
C7_CustomGradientClasses ==
    ( /\ saved.done
      /\ hasGradientSupport(blockSupport)
      /\ hostAttributes.backgroundColor # Undef
      /\ hostAttributes.style.gradient # Undef ) =>
        /\ BackgroundClassOf(hostAttributes) \notin saved.result
        /\ Class("has-background", "-") \in saved.result

\* Saved right after a custom gradient was chosen on a block with a named
\* background colour.
C7_Witness ==
    /\ saved.done
    /\ hasGradientSupport(blockSupport)
    /\ lastCall = [channel |-> "gradient", value |-> "lg-custom"]
    /\ hostAttributes.backgroundColor = "red"
    /\ hostAttributes.gradient = Undef
    /\ hostAttributes.style.gradient = "lg-custom"

\* C8 as stated: with gradient support, a named gradient or a custom gradient
\* keeps the slug-derived background-color class out of the saved className.
C8_AnyGradientSuppresses ==
    ( /\ saved.done
      /\ hasGradientSupport(blockSupport)
      /\ (hostAttributes.gradient # Undef \/ hostAttributes.style.gradient # Undef) ) =>
        BackgroundClassOf(hostAttributes) \notin saved.result

\* C8: with gradient support, the saved className holds the slug-derived
\* background-color class exactly when a background slug is set and there is
\* no custom gradient; a named gradient alone does not suppress it.
C8_CustomGradientSuppresses ==
    ( saved.done /\ hasGradientSupport(blockSupport) ) =>
        ( BackgroundClassOf(hostAttributes) \in saved.result
            <=> ( /\ hostAttributes.backgroundColor # Undef
                  /\ hostAttributes.style.gradient = Undef ) )

\* Saved with a named gradient, a named background colour and no custom
\* gradient: the background class is there.
C8_Witness ==
    /\ saved.done
    /\ hasGradientSupport(blockSupport)
    /\ hostAttributes.gradient = "sunset"
    /\ hostAttributes.backgroundColor = "red"
    /\ hostAttributes.style.gradient = Undef
    /\ BackgroundClassOf(hostAttributes) \in saved.result

-----------------------------------------------------------------------------
(* Properties of the contrast sampler *)

\* C9 as stated: a run of the sampler that finds no block node leaves both
\* fields of the contrast sample undefined.
C9_AbsentNodeUnknown ==
    (lastSample.ran /\ ~lastSample.found) =>
        /\ detectedBackgroundColor = Undef
        /\ detectedColor = Undef

\* The alpha channel of a computed background is zero.
IsFullyTransparent(color) == color \in {Transparent, "rgba(255, 255, 255, 0)"}

AllTransparent(d) ==
    d.present /\ \A i \in DOMAIN d.chain : IsFullyTransparent(d.chain[i])

\* C10 as stated: when the block node and all its element ancestors are fully
\* transparent, the sampled background is the value of the topmost element
\* ancestor, where the walk ends.
C10_TransparentFallback ==
    (lastSample.ran /\ AllTransparent(dom)) =>
        /\ lastSample.stop = Len(dom.chain)
        /\ detectedBackgroundColor = dom.chain[Len(dom.chain)]
        /\ detectedBackgroundColor # Undef

\* The nearest node, from the block node upwards, whose background is not
\* fully transparent.
NearestOpaque(d) ==
    FirstIndex({i \in DOMAIN d.chain : ~IsFullyTransparent(d.chain[i])})

\* C11 as stated: when some node on the chain has a background that is not
\* fully transparent, the sampled background is that of the nearest such
\* node, where the walk stops, and the sampled text colour is the block
\* node's.
C11_NearestOpaque ==
    ( /\ lastSample.ran
      /\ dom.present
      /\ \E i \in DOMAIN dom.chain : ~IsFullyTransparent(dom.chain[i]) ) =>
        /\ lastSample.stop = NearestOpaque(dom)
        /\ detectedBackgroundColor = dom.chain[NearestOpaque(dom)]
        /\ detectedColor = dom.color

\* C19: a run of the walk on a found node visits the nodes 1..stop of the
\* chain, at most one per element: every node below the stop read as the
\* sentinel, and the walk stops before the topmost element only at a node
\* that does not.
C19_WalkTerminates ==
    (lastSample.ran /\ lastSample.found) =>
        /\ lastSample.stop \in 1..Len(dom.chain)
        /\ \A i \in 1..(lastSample.stop - 1) : dom.chain[i] = Transparent
        /\ lastSample.stop < Len(dom.chain) => dom.chain[lastSample.stop] # Transparent

\* A walk over a chain of the full depth that ends at the topmost element,
\* whose parent is the document.
C19_Witness ==
    /\ lastSample.ran
    /\ lastSample.found
    /\ Len(dom.chain) = MaxDepth
    /\ lastSample.stop = MaxDepth
    /\ dom.top = "document"

-----------------------------------------------------------------------------
(* Lookups, idempotence and frame of the change handlers *)

\* Forward lookup of a slug in the catalog of a channel.
ForwardValue(name, slug) ==
    IF name = "gradient" THEN getGradientValueBySlug(gradients, slug)
    ELSE getColorObjectByAttributeValues(colors, slug, Undef)

AllCatalogSlugs(name) ==
    IF name = "gradient" THEN {gradients[i].slug : i \in DOMAIN gradients}
    ELSE {colors[i].slug : i \in DOMAIN colors}

\* The slugs of the entries whose value no other entry of the catalog lists.
UniquelyListedSlugs(name) ==
    IF name = "gradient"
    THEN {gradients[i].slug : i \in {j \in DOMAIN gradients :
             \A k \in DOMAIN gradients \ {j} : gradients[k].gradient # gradients[j].gradient}}
    ELSE {colors[i].slug : i \in {j \in DOMAIN colors :
             \A k \in DOMAIN colors \ {j} : colors[k].color # colors[j].color}}

\* C12 as stated: for every slug of a catalog, the reverse lookup of the
\* slug's value returns that slug.
C12_RoundTrip ==
    \A name \in Channels : \A slug \in AllCatalogSlugs(name) :
        ResultSlug(name, ForwardValue(name, slug)) = slug

\* C12: for every slug whose value no other entry of its catalog lists, the
\* reverse lookup of the slug's value returns that slug, and a
\* change call given that value stores exactly that slug.
C12_UniqueValueRoundTrip ==
    /\ \A name \in Channels : \A slug \in UniquelyListedSlugs(name) :
          ResultSlug(name, ForwardValue(name, slug)) = slug
    /\ lastCall.channel # "none" =>
          \A slug \in UniquelyListedSlugs(lastCall.channel) :
              lastCall.value = ForwardValue(lastCall.channel, slug) =>
                  lastCommit.value = slug

\* The value of the one gradient of the catalog was chosen and its slug stored.
C12_Witness ==
    /\ Len(gradients) = 1
    /\ "sunset" \in UniquelyListedSlugs("gradient")
    /\ lastCall = [channel |-> "gradient", value |-> "lg-sunset"]
    /\ lastCommit.value = "sunset"
    /\ localAttributes.gradient = "sunset"

ChannelClear(attrs, name) ==
    ChannelSlug(attrs, name) = Undef /\ ChannelRaw(attrs, name) = Undef

SameChannels(a, b) ==
    /\ \A name \in Channels :
          /\ ChannelSlug(a, name) = ChannelSlug(b, name)
          /\ ChannelRaw(a, name) = ChannelRaw(b, name)
    /\ a.style.other = b.style.other

\* C13 as stated: a clearing change of a channel that is already clear
\* leaves the snapshot as it was.
C13_ClearIsNoOp ==
    [][(IsChangeStep /\ lastCall'.value = Undef
          /\ ChannelClear(localAttributes, lastCall'.channel))
        => localAttributes' = localAttributes]_vars

\* C13: a clearing change of a channel that is already clear leaves every
\* slug, raw value and other style key as it was, and the whole snapshot when
\* its style held no empty container; the same change made twice in a row
\* leaves the snapshot of the first.
C13_Idempotent ==
    [][IsChangeStep =>
          /\ (lastCall'.value = Undef /\ ChannelClear(localAttributes, lastCall'.channel))
                => /\ SameChannels(localAttributes', localAttributes)
                   /\ Minimal(localAttributes.style) => localAttributes' = localAttributes
          /\ lastCall' = lastCall
                => /\ localAttributes' = localAttributes
                   /\ hostAttributes' = hostAttributes]_vars

\* The same custom value was given twice in a row to a channel.
C13_Witness ==
    /\ batchLen = 2
    /\ lastCall = [channel |-> "background", value |-> "#222"]
    /\ batch = [NoBatch EXCEPT !["background"] = "#222"]
    /\ attributes.style.background = Undef
    /\ localAttributes.style.background = "#222"

\* C17: a change call commits the style and its own channel's slug
\* attribute, and leaves the slug and the raw value of every other channel
\* as they were, in the shadow and in the host's attributes.
C17_Frame ==
    [][IsChangeStep =>
          /\ lastCommit'.attr = AttributeName(lastCall'.channel)
          /\ \A name \in Channels \ {lastCall'.channel} :
                /\ ChannelSlug(localAttributes', name) = ChannelSlug(localAttributes, name)
                /\ ChannelRaw(localAttributes', name) = ChannelRaw(localAttributes, name)
                /\ ChannelSlug(hostAttributes', name) = ChannelSlug(hostAttributes, name)
                /\ ChannelRaw(hostAttributes', name) = ChannelRaw(hostAttributes, name)]_vars

\* A text change on a block with a named background and a custom gradient.
C17_Witness ==
    /\ batchLen = 1
    /\ lastCall = [channel |-> "text", value |-> "#222"]
    /\ attributes.style.text = Undef
    /\ hostAttributes.backgroundColor = "red"
    /\ hostAttributes.style.gradient = "lg-custom"
    /\ hostAttributes.style.text = "#222"

-----------------------------------------------------------------------------
(* The gradient value handed to the panel *)

\* C14: in the panel of a block type with colour support: with gradient
\* support and a gradient slug set, the gradient value is the value of the
\* catalog entry with that slug, and undefined when the catalog has no such
\* entry, whatever the custom gradient; with gradient support and no slug it
\* is the custom gradient style.color.gradient; without gradient support it is
\* undefined, no gradient handler is exposed and no gradient change is made.
C14_EffectiveGradient ==
    hasColorSupport(blockSupport) =>
        /\ (hasGradientSupport(blockSupport) /\ attributes.gradient # Undef) =>
              /\ \A i \in DOMAIN gradients :
                    gradients[i].slug = attributes.gradient =>
                        gradientValue = gradients[i].gradient
              /\ (\A i \in DOMAIN gradients : gradients[i].slug # attributes.gradient)
                    => gradientValue = Undef
        /\ (hasGradientSupport(blockSupport) /\ attributes.gradient = Undef) =>
              gradientValue = ChannelRaw(attributes, "gradient")
        /\ ~hasGradientSupport(blockSupport) =>
              /\ gradientValue = Undef
              /\ ~onGradientChange
              /\ lastCall.channel # "gradient"

\* A render handed over props whose gradient slug the catalog does not hold,
\* next to a custom gradient.
C14_Witness ==
    /\ lastRender # "none"
    /\ hasGradientSupport(blockSupport)
    /\ gradients = <<>>
    /\ attributes.gradient = "sunset"
    /\ attributes.style.gradient = "lg-custom"
    /\ gradientValue = Undef

-----------------------------------------------------------------------------
(* Properties of the labeller *)

CallsOf(api) == {i \in DOMAIN calls : calls[i].api = api}

Fulfilled(api) == \E i \in CallsOf(api) : calls[i].settled = "fulfilled"

\* C15: once the profile lookup request has failed, the invocation has
\* returned, not thrown; its last debug message is the lookup error; and no
\* comment request was made.
C15_FailSoftLookup ==
    (\E i \in CallsOf("got") : calls[i].settled = "rejected") =>
        /\ pc = "done"
        /\ outcome = "returned"
        /\ logs # <<>>
        /\ logs[Len(logs)] = "lookupError"
        /\ CallsOf("issues.createComment") = {}

\* The label was added and the lookup request then failed.
C15_Witness ==
    /\ Fulfilled("issues.addLabels")
    /\ \E i \in CallsOf("got") : calls[i].settled = "rejected"
    /\ outcome = "returned"
    /\ Len(payload.commits) = MaxPushed

\* C18: a label request is made only for a push to refs/heads/master whose
\* first commit names a pull request, after a search that counted no commit of
\* the author, and it labels that pull request; a comment request is made only
\* after the label request was fulfilled and the lookup was fulfilled with no
\* user name, and it comments on that pull request; an invocation makes at
\* most one label request and at most one comment request.
C18_LabelThenComment ==
    /\ \A i \in CallsOf("issues.addLabels") :
          /\ payload.ref = "refs/heads/master"
          /\ payload.commits[1].pullRequest # Undef
          /\ calls[i].arg = payload.commits[1].pullRequest
          /\ \E j \in CallsOf("search.commits") :
                /\ j < i
                /\ calls[j].settled = "fulfilled"
                /\ calls[j].arg = payload.commits[1].author
          /\ totalCount = 0
    /\ \A i \in CallsOf("issues.createComment") :
          /\ calls[i].arg = payload.commits[1].pullRequest
          /\ \E j \in CallsOf("issues.addLabels") :
                j < i /\ calls[j].settled = "fulfilled"
          /\ \E j \in CallsOf("got") :
                j < i /\ calls[j].settled = "fulfilled"
          /\ dotOrgUsername \in {Undef, ""}
          /\ \A k \in DOMAIN logs : logs[k] # "lookupError"
    /\ Cardinality(CallsOf("issues.addLabels")) <= 1
    /\ Cardinality(CallsOf("issues.createComment")) <= 1

\* A first-time contributor without a WordPress.org user name was labelled
\* and prompted, on a push of two commits naming different pull requests.
C18_Witness ==
    /\ outcome = "returned"
    /\ Fulfilled("issues.addLabels")
    /\ Fulfilled("issues.createComment")
    /\ Len(payload.commits) = MaxPushed
    /\ payload.commits[Len(payload.commits)].pullRequest = Undef

-----------------------------------------------------------------------------
(* Properties of the valid-text-domain rule *)

FixedReports == {"missing", "invalidValue", "unnecessaryDefault"}

TextDomainOf(c) == c.arguments[TextDomainPosition(c.callee)]

HasTextDomain(c) == Len(c.arguments) >= TextDomainPosition(c.callee)

\* C16: on every case of the table, for each of the four functions: the rule
\* reports what the table expects; a call reported as missing, invalidValue
\* or unnecessaryDefault carries a fix, the fixed call is the table's output,
\* and the lint pass over the fixed call under the same options reports
\* nothing; a call whose text domain is not a string literal is reported as
\* invalidType, carries no fix and stays as it was.
C16_AutofixConverges ==
    /\ \A i \in DOMAIN passes :
          passes[i] \notin {"errorsUnexpected", "outputUnexpected"}
    /\ (passes # <<>> /\ passes[1] \in FixedReports) =>
          /\ report.fix # NoFix \/ Len(passes) > 4
          /\ Len(passes) > 4 => passes[Len(passes)] = "valid"
    /\ (passes # <<>> /\ HasTextDomain(testCase.code)
          /\ TextDomainOf(testCase.code).type # "Literal") =>
          /\ passes[1] = "invalidType"
          /\ report.fix = NoFix
          /\ code = testCase.code

\* A disallowed literal domain of _nx was replaced and the call linted again.
C16_Witness ==
    /\ testCase.code.callee = "_nx"
    /\ Len(passes) > 4
    /\ passes[1] = "invalidValue"
    /\ passes[Len(passes)] = "valid"
    /\ code # testCase.code

====
